---- MODULE Spec2Model ----
(***************************************************************************)
(* SqliteModel (src/src/sqlite-model.ts): the lifecycle of model instances *)
(* that share one database file.  Every action is one native sqlite3       *)
(* callback together with the JavaScript continuation it triggers, up to   *)
(* the next native call the continuation issues.                           *)
(***************************************************************************)
EXTENDS Integers, Sequences, FiniteSets, TLC

\* Bounds of the model.
NumModels == 2
MaxUnits == 2
MaxQueries == 2

Models == 1..NumModels

\* An init SQL unit is inline SQL (valid or not) or the path of a file
\* (readable or not); a query is valid SQL over the system catalog, valid SQL
\* over the table made by the first init unit, or invalid SQL.
UnitKinds == {"sql", "badsql", "file", "unreadable"}
QueryKinds == {"plain", "usesTable", "wrong"}
\* OPEN_READWRITE | OPEN_CREATE (the default) and OPEN_READONLY.
Modes == {"RWC", "RO"}

VARIABLES
  createDbSql,   \* modelOptions.createDbSql: the configured init SQL units
  queries,       \* modelOptions.queries: query name -> kind of its SQL
  file,          \* the database file at dbPath
  model,         \* the SqliteModel instances
  sqlite3        \* the sqlite3 module of the process

vars == <<createDbSql, queries, file, model, sqlite3>>

Units == 1..Len(createDbSql)
QueryNames == DOMAIN queries

(***************************** the database file ***************************)

\* internal: the bookkeeping table exists; rows: its rows; tables: the init
\* units whose tables exist; data: the values held by the table of unit 1.
NoFile ==
  [kind |-> "missing", internal |-> FALSE, rows |-> <<>>, tables |-> {}, data |-> <<>>]
GarbageFile ==
  [kind |-> "garbage", internal |-> FALSE, rows |-> <<>>, tables |-> {}, data |-> <<>>]

\* The row createInternalTable inserts.
VersionRow_zero == <<"version", "0">>
VersionRow == <<"version", "1">>

\* key text NOT NULL PRIMARY KEY: an INSERT of a present key is refused.
primaryKeyConflict_none(rows, row) == FALSE
primaryKeyConflict(rows, row) == \E n \in 1..Len(rows) : rows[n][1] = row[1]

\* Number(row.value) of getCurrentSchemaVersion; 0 stands for every falsy
\* result (0 and NaN).
Number(value) ==
  CASE value = "1" -> 1
    [] value = "2" -> 2
    [] OTHER -> 0

(******************************* SQL texts *********************************)

\* The SQL text a unit executes: the inline text itself, or the contents of
\* the file with the comment lines removed.
UnitSql(k) ==
  IF createDbSql[k] \in {"file", "unreadable"}
  THEN <<"sql", <<"contents of", k>>>>
  ELSE <<"sql", <<"inline", k, createDbSql[k]>>>>
UnitPath(k) == <<"path", k>>
QuerySql(q) == <<"sql", <<"query", q, queries[q]>>>>

(******************************* promises **********************************)

Pending == [state |-> "pending", value |-> <<>>]

\* isReady() returns the promise made in the constructor.
isReady_fresh(s) == [state |-> "resolved", value |-> <<>>]
isReady(s) == s.ready

\* resolve() and reject() of a promise: only a pending promise settles, and
\* the callers that wait on isReady() are then given its outcome.
Resolve(s) ==
  IF s.ready.state = "pending"
  THEN LET t == [s EXCEPT !.ready = [state |-> "resolved", value |-> <<>>]]
       IN [t EXCEPT !.seen = {isReady(t)}]
  ELSE s
Reject(s, error) ==
  IF s.ready.state = "pending"
  THEN LET t == [s EXCEPT !.ready = [state |-> "rejected", value |-> error]]
       IN [t EXCEPT !.seen = {isReady(t)}]
  ELSE s

(**************************** error messages *******************************)

Text(t) == <<"text", t>>
Native(code) == <<"native", code>>

OpenError(code) == <<Text("sqlite: error opening the database"), Native(code)>>
CheckError(code) == <<Text("Error while checking for internal table"), Native(code)>>
InternalError(code) == <<Text("Error while creating internal table"), Native(code)>>
ExecError(sql, code) == <<Text("Error while executing sql"), sql, Native(code)>>
ReadError(path, code) ==
  <<Text("Error while reading sql"), Text("from"), path, Native(code)>>
PrepareError_nosql(sql, code) == <<Text("Error preparing query"), Native(code)>>
PrepareError(sql, code) == <<Text("Error preparing query"), sql, Native(code)>>

(************************** statement preparation **************************)

\* The SqliteStatement prepareStmts stores under the name q.
preparedStatement_first(q) == [sql |-> QuerySql(CHOOSE p \in QueryNames : \A r \in QueryNames : p <= r)]
preparedStatement(q) == [sql |-> QuerySql(q)]

\* asyncParallel(items, callback): the callback is called for every item
\* at once, and the returned promise resolves when the promise of every
\* callback has resolved (at once for no item).
asyncParallelStart(items) == [q \in items |-> "pending"]
asyncParallelResolved(prep) == \A q \in DOMAIN prep : prep[q] = "ok"

\* prepareStmts, and the resolve() of openDb when it has nothing to wait for.
prepareStmts(s) ==
  LET t == [s EXCEPT !.prep = asyncParallelStart(QueryNames)]
  IN IF asyncParallelResolved(t.prep) THEN Resolve(t) ELSE t

\* The native outcome of db.prepare.
NativePrepare(q, f) ==
  CASE queries[q] = "wrong" -> "SQLITE_ERROR"
    [] queries[q] \notin {"plain", "wrong"} /\ 1 \notin f.tables -> "SQLITE_ERROR"
    [] OTHER -> "OK"

\* stmt[query] = await prepareStmt(...)
stmtWith(stmt, q) ==
  [x \in (DOMAIN stmt) \cup {q} |-> IF x = q THEN preparedStatement(q) ELSE stmt[x]]

\* The callback of one prepare: a failure rejects the promise of
\* asyncParallel, and with it readiness; a success stores the statement, and
\* the last success resolves readiness.
onPrepared(s, q, code) ==
  IF code # "OK"
  THEN Reject([s EXCEPT !.prep[q] = "failed"], PrepareError(QuerySql(q), code))
  ELSE LET t == [s EXCEPT !.prep[q] = "ok", !.stmt = stmtWith(s.stmt, q)]
       IN IF asyncParallelResolved(t.prep) THEN Resolve(t) ELSE t

(***************************** init SQL units ******************************)

\* What the callback createModelTables hands to asyncSecuential does with
\* one unit before it returns its promise.
unitCallback_detached(kind) ==
  IF kind = "unreadable" THEN "readError" ELSE "detached"
unitCallback_swallow(kind) ==
  IF kind = "unreadable" THEN "skipped" ELSE "awaitExec"
unitCallback(kind) ==
  IF kind = "unreadable" THEN "readError" ELSE "awaitExec"

\* asyncSecuential(items, callback) from item k on: the callback of an item
\* is called when the promise of the item before it has resolved; a
\* rejection ends the sequence and rejects the returned promise.
RECURSIVE asyncSecuential(_, _)
asyncSecuential(s, k) ==
  IF k > Len(createDbSql)
  THEN [s |-> [s EXCEPT !.awaiting = 0], outcome |-> "resolved", error |-> <<>>]
  ELSE LET out == unitCallback(createDbSql[k])
       IN CASE out = "readError" ->
                 [s |-> [s EXCEPT !.units[k] = "failed", !.awaiting = 0],
                  outcome |-> "rejected",
                  error |-> ReadError(UnitPath(k), "EACCES")]
            [] out = "awaitExec" ->
                 [s |-> [s EXCEPT !.units[k] = "running", !.awaiting = k],
                  outcome |-> "pending", error |-> <<>>]
            [] out = "detached" ->
                 asyncSecuential([s EXCEPT !.units[k] = "running"], k + 1)
            [] OTHER ->
                 asyncSecuential([s EXCEPT !.units[k] = "failed"], k + 1)

createModelTables(s) == asyncSecuential(s, 1)

\* openDb after createModelTables: await prepareStmts() and resolve(), or
\* catch (error) { reject(error); return; }
afterCreateModelTables(r) ==
  CASE r.outcome = "resolved" -> prepareStmts(r.s)
    [] r.outcome = "rejected" -> Reject(r.s, r.error)
    [] OTHER -> r.s

\* The native outcome of db.exec on a unit's SQL.
NativeExec(k, s) ==
  CASE s.dbMode = "RO" -> "SQLITE_READONLY"
    [] createDbSql[k] = "badsql" -> "SQLITE_ERROR"
    [] OTHER -> "OK"

\* The callback of execSql for unit k, and what follows it in the sequence.
onUnitExecuted(s, k, code) ==
  IF s.awaiting # k
  THEN [s EXCEPT !.units[k] = IF code = "OK" THEN "ok" ELSE "failed"]
  ELSE IF code # "OK"
       THEN afterCreateModelTables(
              [s |-> [s EXCEPT !.units[k] = "failed", !.awaiting = 0],
               outcome |-> "rejected", error |-> ExecError(UnitSql(k), code)])
       ELSE afterCreateModelTables(asyncSecuential([s EXCEPT !.units[k] = "ok"], k + 1))

(********************************* openDb **********************************)

\* The native outcome of new sqlite3.Database(dbPath, dbMode, ...).
NativeOpen(mode, f) ==
  IF mode = "RO" /\ f.kind = "missing" THEN "SQLITE_CANTOPEN" ELSE "OK"

OpenedFile(f) == IF f.kind = "missing" THEN [f EXCEPT !.kind = "db"] ELSE f

\* if (error) { reject(...); return; }
onOpenError_silent(s, code) == [s EXCEPT !.open = "failed"]
onOpenError_noreturn(s, code) ==
  [Reject(s, OpenError(code)) EXCEPT !.open = "failed", !.check = "running"]
onOpenError(s, code) ==
  [Reject(s, OpenError(code)) EXCEPT !.open = "failed"]

\* resolve(!row) of isNew.
isNew_always(f) == TRUE
isNew(f) == ~f.internal

\* if (await this.isNew()) { await createInternalTable(); ... } await prepareStmts()
afterIsNew_noawait(s, new) ==
  IF new
  THEN afterCreateModelTables(
         createModelTables([s EXCEPT !.isNew = "new", !.internal = "running"]))
  ELSE prepareStmts([s EXCEPT !.isNew = "existing"])
afterIsNew(s, new) ==
  IF new
  THEN [s EXCEPT !.isNew = "new", !.internal = "running"]
  ELSE prepareStmts([s EXCEPT !.isNew = "existing"])

\* The outcome of getCurrentSchemaVersion() on a ready instance.
VersionError == <<"text", "Error while retrieving current schema version">>
getCurrentSchemaVersion_nocheck(f) ==
  IF ~f.internal
  THEN [state |-> "rejected", value |-> <<VersionError, <<"native", "SQLITE_ERROR">>>>]
  ELSE LET found == {n \in 1..Len(f.rows) : f.rows[n][1] = "version"}
       IN IF found = {}
          THEN [state |-> "rejected", value |-> <<VersionError>>]
          ELSE [state |-> "resolved",
                value |-> Number(f.rows[CHOOSE n \in found : \A m \in found : n <= m][2])]
getCurrentSchemaVersion_rowcause(f) ==
  IF ~f.internal
  THEN [state |-> "rejected", value |-> <<VersionError, <<"native", "SQLITE_ERROR">>>>]
  ELSE LET found == {n \in 1..Len(f.rows) : f.rows[n][1] = "version"}
       IN IF found = {}
          THEN [state |-> "rejected", value |-> <<VersionError, <<"text", "no row">>>>]
          ELSE LET row == f.rows[CHOOSE n \in found : \A m \in found : n <= m]
               IN IF Number(row[2]) = 0
                  THEN [state |-> "rejected", value |-> <<VersionError>>]
                  ELSE [state |-> "resolved", value |-> Number(row[2])]
getCurrentSchemaVersion(f) ==
  IF ~f.internal
  THEN [state |-> "rejected", value |-> <<VersionError, <<"native", "SQLITE_ERROR">>>>]
  ELSE LET found == {n \in 1..Len(f.rows) : f.rows[n][1] = "version"}
       IN IF found = {}
          THEN [state |-> "rejected", value |-> <<VersionError>>]
          ELSE LET row == f.rows[CHOOSE n \in found : \A m \in found : n <= m]
               IN IF Number(row[2]) = 0
                  THEN [state |-> "rejected", value |-> <<VersionError>>]
                  ELSE [state |-> "resolved", value |-> Number(row[2])]

(************************** prepared statements ****************************)

\* The values the table of unit 1 holds, and the rows a seeding init unit
\* inserts into it.
Values == {1, 2}
SeedRows == <<2, 1>>

\* INSERT INTO test(value) VALUES(?), SELECT value FROM test WHERE value >= ?
\* and DELETE FROM test WHERE value = ?
StmtQueryKinds == {"insert", "select", "delete"}
Methods == {"bind", "reset", "finalize", "run", "get", "all", "each"}
\* The parameters of a call: none, one, and one more than the SQL takes.
ParamSets == {<<>>, <<1>>, <<2, 1>>}

Placeholders(kind) == IF kind \in StmtQueryKinds THEN 1 ELSE 0

\* The field of the result promisifyStatementResult is given for a method.
FieldOf(method) ==
  CASE method = "get" -> "row"
    [] method = "all" -> "rows"
    [] OTHER -> "none"

Undefined == [kind |-> "undefined", v |-> <<>>]
RowObject(x) == [value |-> x]
RowObjects(xs) == [n \in 1..Len(xs) |-> RowObject(xs[n])]

\* field && r: undefined is falsy, a row and an array (an empty one too) are
\* truthy.
truthy_empty(r) == r.kind # "undefined" /\ (r.kind = "rows" => Len(r.v) > 0)
truthy(r) == r.kind # "undefined"

\* function handler(error, r) of promisifyStatementResult.
handler_swallow(field, error, r, result) ==
  [state |-> "resolved", value |-> [result |-> result]]
handler(field, error, r, result) ==
  IF error # "none"
  THEN [state |-> "rejected", value |-> Native(error)]
  ELSE [state |-> "resolved",
        value |-> CASE field = "row" /\ truthy(r) -> [result |-> result, row |-> r.v]
                    [] field = "rows" /\ truthy(r) -> [result |-> result, rows |-> r.v]
                    [] OTHER -> [result |-> result]]

\* Binding parameters resets the statement and removes the parameters bound
\* before; a call without parameters keeps them.  0 stands for NULL.
NativeBind(kind, bound, params) ==
  CASE params = <<>> -> [error |-> "none", bound |-> bound]
    [] Len(params) > Placeholders(kind) ->
         [error |-> "SQLITE_RANGE",
          bound |-> IF Placeholders(kind) > 0 THEN params[1] ELSE 0]
    [] OTHER -> [error |-> "none", bound |-> params[1]]

\* The rows a statement yields when stepped.
NativeRows(kind, data, b) ==
  IF kind = "select" /\ b # 0
  THEN SelectSeq(data, LAMBDA x : x >= b)
  ELSE <<>>

\* The write a statement does when stepped: value is NOT NULL, and a
\* read-only handle refuses to write.
NativeWrite(kind, mode, f, b) ==
  CASE kind \in {"insert", "delete"} /\ mode = "RO" ->
         [error |-> "SQLITE_READONLY", file |-> f, changes |-> 0]
    [] kind = "insert" /\ b = 0 ->
         [error |-> "SQLITE_CONSTRAINT", file |-> f, changes |-> 0]
    [] kind = "insert" ->
         [error |-> "none", file |-> [f EXCEPT !.data = Append(@, b)], changes |-> 1]
    [] kind = "delete" ->
         [error |-> "none",
          file |-> [f EXCEPT !.data = SelectSeq(@, LAMBDA x : x # b)],
          changes |-> Len(f.data) - Len(SelectSeq(f.data, LAMBDA x : x # b))]
    [] OTHER -> [error |-> "none", file |-> f, changes |-> 0]

NativeFailure(f, s, q, error, b) ==
  [error |-> error, r |-> Undefined, rows |-> <<>>, result |-> [changes |-> 0],
   file |-> f, bound |-> b, finalized |-> s.finalized]

\* What the native statement of query q of instance s does for a call of
\* method with params on file f: the error and the value it hands to the
\* callback, the result metadata (this), and what becomes of the file, of
\* the bound parameter and of the finalized statements.
NativeStep(f, s, q, method, params) ==
  LET kind == queries[q]
      bind == NativeBind(kind, s.bound[q], params)
      write == NativeWrite(kind, s.dbMode, f, bind.bound)
      rows == NativeRows(kind, f.data, bind.bound)
      ok == [error |-> "none", r |-> Undefined, rows |-> <<>>,
             result |-> [changes |-> 0], file |-> f, bound |-> s.bound[q],
             finalized |-> s.finalized]
  IN CASE q \in s.finalized -> NativeFailure(f, s, q, "SQLITE_MISUSE", s.bound[q])
       [] method = "reset" -> ok
       [] method = "finalize" -> [ok EXCEPT !.finalized = @ \cup {q}]
       [] bind.error # "none" -> NativeFailure(f, s, q, bind.error, bind.bound)
       [] method = "bind" -> [ok EXCEPT !.bound = bind.bound]
       [] write.error # "none" -> NativeFailure(f, s, q, write.error, bind.bound)
       [] OTHER ->
            [ok EXCEPT !.bound = bind.bound, !.file = write.file,
                       !.result = [changes |-> write.changes],
                       !.rows = rows,
                       !.r = CASE method = "get" /\ rows # <<>> ->
                                    [kind |-> "row", v |-> RowObject(rows[1])]
                               [] method = "all" ->
                                    [kind |-> "rows", v |-> RowObjects(rows)]
                               [] OTHER -> Undefined]

\* A statement call of an instance: the call's number, its statement, method
\* and parameters, what the native statement reported (error, rows, sent),
\* the rows the callback of each was given, and the promise of the call.
NoCall ==
  [n |-> 0, q |-> 0, method |-> "none", params |-> <<>>, step |-> "idle",
   error |-> "none", rows |-> <<>>, sent |-> 0, delivered |-> <<>>,
   result |-> [changes |-> 0], promise |-> Pending, traced |-> FALSE]

(******************************** actions **********************************)

\* The sqlite3 module as loaded: sqlite3.verbose() has not been called.
NotVerbose == [verbose |-> FALSE]

NewModel ==
  [dbMode |-> "none", verbose |-> FALSE, open |-> "idle", check |-> "idle", isNew |-> "unknown",
   internal |-> "idle", units |-> [k \in Units |-> "idle"], awaiting |-> 0,
   prep |-> [q \in QueryNames |-> "idle"], stmt |-> <<>>, ready |-> Pending,
   seen |-> {},
   born |-> [missing |-> FALSE, internal |-> FALSE, inSequence |-> FALSE],
   closed |-> FALSE,
   close |-> [step |-> "idle", fin |-> <<>>, native |-> "idle", promise |-> Pending],
   version |-> [step |-> "idle", native |-> FALSE, cause |-> "none",
                promise |-> Pending],
   bound |-> [q \in QueryNames |-> 0], finalized |-> {}, call |-> NoCall]

Constructed == {i \in Models : model[i].dbMode # "none"}
Settled(i) == model[i].ready.state # "pending"

Init ==
  /\ createDbSql \in UNION {[1..n -> UnitKinds] : n \in 0..MaxUnits}
  /\ queries \in UNION {[1..n -> QueryKinds] : n \in 0..MaxQueries}
  /\ file \in {NoFile, GarbageFile}
  /\ model = [i \in Models |-> NewModel]
  /\ sqlite3 = NotVerbose

\* if (verbose) { sqlite3.verbose(); }: the call switches the module of the
\* process to verbose mode, and nothing switches it back.
verboseAfter_own(on, verbose) == verbose
verboseAfter(on, verbose) == on \/ verbose

\* new SqliteModel(options): the constructor switches sqlite3 to verbose
\* mode when the option asks for it, and issues the native open.
ConstructWith(i, mode, verbose) ==
  /\ model[i].dbMode = "none"
  /\ \A j \in Models : j < i => j \in Constructed
  /\ sqlite3' = [sqlite3 EXCEPT !.verbose = verboseAfter(@, verbose)]
  /\ model' = [model EXCEPT ![i] =
       [@ EXCEPT !.dbMode = mode, !.verbose = verbose, !.open = "running",
                 !.born = [missing |-> file.kind = "missing",
                           internal |-> file.internal,
                           inSequence |-> \A j \in Constructed :
                                            model[j].ready.state = "resolved"]]]
  /\ UNCHANGED <<createDbSql, queries, file>>

\* verbose is false unless the options say otherwise.
Construct(i, mode) == ConstructWith(i, mode, FALSE)
ConstructVerbose(i, mode) == ConstructWith(i, mode, TRUE)

\* The callback of the native open.
OpenCallback(i) ==
  /\ model[i].open = "running"
  /\ LET s == model[i]
         code == NativeOpen(s.dbMode, file)
     IN IF code # "OK"
        THEN /\ model' = [model EXCEPT ![i] = onOpenError(s, code)]
             /\ UNCHANGED file
        ELSE /\ model' = [model EXCEPT ![i] = [s EXCEPT !.open = "ok", !.check = "running"]]
             /\ file' = OpenedFile(file)
  /\ UNCHANGED <<sqlite3, createDbSql, queries>>

\* The callback of the get of isNew; a get on a handle whose open failed,
\* or on a file that is no database, reports an error.
IsNewCallback(i) ==
  /\ model[i].check = "running"
  /\ LET s == model[i]
     IN IF s.open # "ok"
        THEN model' = [model EXCEPT ![i] =
               Reject([s EXCEPT !.check = "failed"], CheckError("SQLITE_MISUSE"))]
        ELSE IF file.kind = "garbage"
        THEN model' = [model EXCEPT ![i] =
               Reject([s EXCEPT !.check = "failed"], CheckError("SQLITE_NOTADB"))]
        ELSE model' = [model EXCEPT ![i] = afterIsNew([s EXCEPT !.check = "ok"], isNew(file))]
  /\ UNCHANGED <<sqlite3, createDbSql, queries, file>>

\* createInternalTable, first statement: CREATE TABLE IF NOT EXISTS.
ExecCreateTable(i) ==
  /\ model[i].internal = "running"
  /\ LET s == model[i]
     IN IF s.dbMode = "RO" /\ ~file.internal
        THEN /\ model' = [model EXCEPT ![i] =
                  Reject([s EXCEPT !.internal = "failed"], InternalError("SQLITE_READONLY"))]
             /\ UNCHANGED file
        ELSE /\ model' = [model EXCEPT ![i] = [s EXCEPT !.internal = "created"]]
             /\ file' = [file EXCEPT !.internal = TRUE]
  /\ UNCHANGED <<sqlite3, createDbSql, queries>>

\* createInternalTable, second statement: INSERT of the version row, and
\* the callback of the exec.
ExecInsertVersion(i) ==
  /\ model[i].internal = "created"
  /\ LET s == model[i]
         code == CASE s.dbMode = "RO" -> "SQLITE_READONLY"
                   [] ~file.internal -> "SQLITE_ERROR"
                   [] primaryKeyConflict(file.rows, VersionRow) -> "SQLITE_CONSTRAINT"
                   [] OTHER -> "OK"
     IN IF code # "OK"
        THEN /\ model' = [model EXCEPT ![i] =
                  Reject([s EXCEPT !.internal = "failed"], InternalError(code))]
             /\ UNCHANGED file
        ELSE /\ model' = [model EXCEPT ![i] = afterCreateModelTables(createModelTables([s EXCEPT !.internal = "ok"]))]
             /\ file' = [file EXCEPT !.rows = Append(@, VersionRow)]
  /\ UNCHANGED <<sqlite3, createDbSql, queries>>

\* The callback of the exec of init unit k.
UnitExecCallback(i, k) ==
  /\ model[i].units[k] = "running"
  /\ LET s == model[i]
         code == NativeExec(k, s)
     IN /\ model' = [model EXCEPT ![i] = onUnitExecuted(s, k, code)]
        /\ file' = IF code = "OK"
                   THEN [file EXCEPT !.tables = @ \cup {k},
                                     !.data = IF createDbSql[k] = "seed"
                                              THEN @ \o SeedRows ELSE @]
                   ELSE file
  /\ UNCHANGED <<sqlite3, createDbSql, queries>>

\* The callback of the prepare of query q.
PrepareCallback(i, q) ==
  /\ model[i].prep[q] = "pending"
  /\ model' = [model EXCEPT ![i] = onPrepared(model[i], q, NativePrepare(q, file))]
  /\ UNCHANGED <<sqlite3, createDbSql, queries, file>>

\* A call of isReady() after readiness settled, and the outcome it is given.
ObserveReady(i) ==
  /\ i \in Constructed
  /\ isReady(model[i]).state # "pending"
  /\ model' = [model EXCEPT ![i].seen = @ \cup {isReady(model[i])}]
  /\ UNCHANGED <<sqlite3, createDbSql, queries, file>>

Next ==
  \/ \E i \in Models, mode \in Modes : Construct(i, mode)
  \/ \E i \in Models : OpenCallback(i)
  \/ \E i \in Models : IsNewCallback(i)
  \/ \E i \in Models : ExecCreateTable(i)
  \/ \E i \in Models : ExecInsertVersion(i)
  \/ \E i \in Models, k \in Units : UnitExecCallback(i, k)
  \/ \E i \in Models, q \in QueryNames : PrepareCallback(i, q)
  \/ \E i \in Models : ObserveReady(i)

Spec == Init /\ [][Next]_vars

\* Every native call that was issued invokes its callback in the end: the
\* open, the get of isNew, the exec of createInternalTable, the exec of each
\* init unit and each prepare.
NativeCallsComplete ==
  \A i \in Models :
    /\ WF_vars(OpenCallback(i))
    /\ WF_vars(IsNewCallback(i))
    /\ WF_vars(ExecCreateTable(i))
    /\ WF_vars(ExecInsertVersion(i))
    /\ WF_vars(\E k \in Units : UnitExecCallback(i, k))
    /\ WF_vars(\E q \in QueryNames : PrepareCallback(i, q))

SpecLive == Init /\ [][Next]_vars /\ NativeCallsComplete

(*********************** operations on an instance *************************)

\* this.ready.then(callback): the callback waits while readiness is pending,
\* runs once it has resolved, and is skipped when it has rejected, the
\* promise then() returned rejecting with the readiness error.
readyThen_eager(s) == "run"
readyThen(s) ==
  CASE s.ready.state = "pending" -> "wait"
    [] s.ready.state = "resolved" -> "run"
    [] OTHER -> "reject"

CloseError(code) == <<Text("Error closing the database"), Native(code)>>

\* Promise.all(finalized) resolves when every finalize() has resolved.
allFinalized_first(fin) == \E q \in DOMAIN fin : fin[q] = "ok"
allFinalized(fin) == \A q \in DOMAIN fin : fin[q] = "ok"

\* .then(() => { this.db.close(...) })
closeNative(s) == [s EXCEPT !.close.step = "closing", !.close.native = "running"]

\* The callback closeDb hands to ready.then: finalize() is called on every
\* value of stmt, and the native close follows Promise.all.
closeDbStart(s) ==
  LET t == [s EXCEPT !.close.step = "finalizing",
                     !.close.fin = [q \in DOMAIN s.stmt |-> "pending"]]
  IN IF allFinalized(t.close.fin) THEN closeNative(t) ELSE t

\* The callback of one finalize: an error rejects its promise with the
\* native error, Promise.all with it, and .catch((error) => reject(error))
\* rejects closeDb(); the last success issues the native close.
onFinalized(s, q, code) ==
  IF code # "OK"
  THEN LET t == [s EXCEPT !.close.fin[q] = "failed"]
       IN IF s.close.step = "finalizing"
          THEN [t EXCEPT !.close.step = "done",
                         !.close.promise = [state |-> "rejected", value |-> Native(code)]]
          ELSE t
  ELSE LET t == [s EXCEPT !.close.fin[q] = "ok"]
       IN IF s.close.step = "finalizing" /\ allFinalized(t.close.fin)
          THEN closeNative(t)
          ELSE t

\* The callback of the native close.
onClosed_release(s, code) ==
  [s EXCEPT !.close.step = "done", !.close.native = "done", !.closed = TRUE,
            !.stmt = <<>>,
            !.close.promise = [state |-> "resolved", value |-> <<>>]]
onClosed(s, code) ==
  IF code # "OK"
  THEN [s EXCEPT !.close.step = "done", !.close.native = "done",
                 !.close.promise = [state |-> "rejected", value |-> CloseError(code)]]
  ELSE [s EXCEPT !.close.step = "done", !.close.native = "done", !.closed = TRUE,
                 !.close.promise = [state |-> "resolved", value |-> <<>>]]

\* A call of closeDb().
CallCloseDb(i) ==
  /\ i \in Constructed
  /\ model[i].close.step = "idle"
  /\ model' = [model EXCEPT ![i].close.step = "waiting"]
  /\ UNCHANGED <<sqlite3, createDbSql, queries, file>>

\* The then() of closeDb once readiness has settled.
CloseDbReady(i) ==
  /\ model[i].close.step = "waiting"
  /\ readyThen(model[i]) # "wait"
  /\ LET s == model[i]
     IN model' = [model EXCEPT ![i] =
          IF readyThen(s) = "reject"
          THEN [s EXCEPT !.close.step = "done",
                         !.close.promise = [state |-> "rejected", value |-> s.ready.value]]
          ELSE closeDbStart(s)]
  /\ UNCHANGED <<sqlite3, createDbSql, queries, file>>

\* The callback of the finalize of the statement of query q; the native
\* finalize reports an error on a statement that was finalized before.
FinalizeCallback(i, q) ==
  /\ q \in DOMAIN model[i].close.fin
  /\ model[i].close.fin[q] = "pending"
  /\ \E code \in {"OK", "SQLITE_MISUSE"} :
       model' = [model EXCEPT ![i] = onFinalized(model[i], q, code)]
  /\ UNCHANGED <<sqlite3, createDbSql, queries, file>>

\* The callback of the native close; the close reports SQLITE_BUSY while
\* statements prepared outside stmt are not finalized.
CloseCallback(i) ==
  /\ model[i].close.native = "running"
  /\ \E code \in {"OK", "SQLITE_BUSY"} :
       model' = [model EXCEPT ![i] = onClosed(model[i], code)]
  /\ UNCHANGED <<sqlite3, createDbSql, queries, file>>

\* The SQL the harness of the tests runs through execSql on a ready
\* instance: DROP TABLE and DELETE FROM on the bookkeeping table, and an
\* UPDATE of the value of its rows.
TamperSql == {"drop", "delete", "update 0", "update x", "update 2"}

TamperValue(sql) ==
  CASE sql = "update 0" -> "0"
    [] sql = "update 2" -> "2"
    [] OTHER -> "x"

\* The effect of db.exec(sql) on the file.
ExecTamper(f, sql) ==
  CASE sql = "drop" -> [f EXCEPT !.internal = FALSE, !.rows = <<>>]
    [] sql = "delete" -> [f EXCEPT !.rows = <<>>]
    [] OTHER -> [f EXCEPT !.rows =
                   [n \in 1..Len(f.rows) |-> <<f.rows[n][1], TamperValue(sql)>>]]

\* execSql(sql) called on a ready instance while no construction is under
\* way, and its callback: a read-only handle, a closed handle and a missing
\* table report an error.
PublicExecSql(i, sql) ==
  /\ model[i].ready.state = "resolved"
  /\ \A j \in Constructed : Settled(j)
  /\ file' = IF model[i].dbMode = "RO" \/ model[i].closed \/ ~file.internal
             THEN file
             ELSE ExecTamper(file, sql)
  /\ UNCHANGED <<sqlite3, createDbSql, queries, model>>

\* What the callback of the get of getCurrentSchemaVersion found.
versionCause(s, f) ==
  CASE s.closed -> "closed"
    [] ~f.internal -> "table"
    [] \A n \in 1..Len(f.rows) : f.rows[n][1] # "version" -> "row"
    [] \E n \in 1..Len(f.rows) :
         f.rows[n][1] = "version" /\ f.rows[n][2] \notin {"1", "2"} -> "value"
    [] OTHER -> "none"

\* The callback of the get of getCurrentSchemaVersion; a get on a closed
\* handle reports an error.
onVersionRow(s, f) ==
  [s EXCEPT !.version.step = "done",
            !.version.cause = versionCause(s, f),
            !.version.promise =
               IF s.closed
               THEN [state |-> "rejected",
                     value |-> <<VersionError, Native("SQLITE_MISUSE")>>]
               ELSE getCurrentSchemaVersion(f)]

\* A call of getCurrentSchemaVersion().
CallGetVersion(i) ==
  /\ i \in Constructed
  /\ model[i].version.step = "idle"
  /\ model' = [model EXCEPT ![i].version.step = "waiting"]
  /\ UNCHANGED <<sqlite3, createDbSql, queries, file>>

\* The then() of getCurrentSchemaVersion once readiness has settled.
GetVersionReady(i) ==
  /\ model[i].version.step = "waiting"
  /\ readyThen(model[i]) # "wait"
  /\ LET s == model[i]
     IN model' = [model EXCEPT ![i] =
          IF readyThen(s) = "reject"
          THEN [s EXCEPT !.version.step = "done",
                         !.version.promise = [state |-> "rejected", value |-> s.ready.value]]
          ELSE [s EXCEPT !.version.step = "querying", !.version.native = TRUE]]
  /\ UNCHANGED <<sqlite3, createDbSql, queries, file>>

GetVersionCallback(i) ==
  /\ model[i].version.step = "querying"
  /\ model' = [model EXCEPT ![i] = onVersionRow(model[i], file)]
  /\ UNCHANGED <<sqlite3, createDbSql, queries, file>>

\* The configurations of the specification of the operations.
OpsUnitKinds == {"sql"}
OpsQueryKinds == {"plain", "wrong"}

InitOps ==
  /\ createDbSql \in [1..1 -> OpsUnitKinds]
  /\ queries \in UNION {[1..n -> OpsQueryKinds] : n \in 0..MaxQueries}
  /\ file = NoFile
  /\ model = [i \in Models |-> NewModel]
  /\ sqlite3 = NotVerbose

NextOps ==
  \/ Next
  \/ \E i \in Models : CallCloseDb(i)
  \/ \E i \in Models : CloseDbReady(i)
  \/ \E i \in Models, q \in QueryNames : FinalizeCallback(i, q)
  \/ \E i \in Models : CloseCallback(i)
  \/ \E i \in Models : CallGetVersion(i)
  \/ \E i \in Models : GetVersionReady(i)
  \/ \E i \in Models : GetVersionCallback(i)

\* Constructions, closeDb() and getCurrentSchemaVersion().
SpecOps == InitOps /\ [][NextOps]_vars

NextVersion ==
  \/ Next
  \/ \E i \in Models, sql \in TamperSql : PublicExecSql(i, sql)
  \/ \E i \in Models : CallGetVersion(i)
  \/ \E i \in Models : GetVersionReady(i)
  \/ \E i \in Models : GetVersionCallback(i)

\* Constructions, getCurrentSchemaVersion() and SQL run on the bookkeeping
\* table.
SpecVersion == InitOps /\ [][NextVersion]_vars

(**************************** statement calls ******************************)

MaxCalls == 2

RECURSIVE CallsOf(_)
CallsOf(S) ==
  IF S = {} THEN 0
  ELSE LET i == CHOOSE j \in S : TRUE IN model[i].call.n + CallsOf(S \ {i})

\* The promise of a call once the native statement has answered: the
\* handler of promisifyStatementResult settles it; for each, an error
\* reaches cb, which rejects, and rows are still to be handed over otherwise.
settleCall_drop(s, out) ==
  LET c == s.call
  IN IF out.error # "none"
     THEN [s EXCEPT !.call.step = "done", !.call.error = out.error,
                    !.call.promise = [state |-> "rejected", value |-> Native(out.error)],
                    !.stmt = [x \in (DOMAIN s.stmt) \ {c.q} |-> s.stmt[x]]]
     ELSE [s EXCEPT !.call.step = "done", !.call.rows = out.rows,
                    !.call.result = out.result,
                    !.call.promise = handler(FieldOf(c.method), out.error, out.r, out.result)]
settleCall(s, out) ==
  LET c == s.call
  IN IF c.method = "each"
     THEN IF out.error # "none"
          THEN [s EXCEPT !.call.step = "done", !.call.error = out.error,
                         !.call.promise = [state |-> "rejected", value |-> Native(out.error)]]
          ELSE [s EXCEPT !.call.step = "rows", !.call.rows = out.rows,
                         !.call.result = out.result]
     ELSE [s EXCEPT !.call.step = "done", !.call.error = out.error,
                    !.call.rows = out.rows, !.call.result = out.result,
                    !.call.promise = handler(FieldOf(c.method), out.error, out.r, out.result)]

\* function cb(error, row) of promisifyStatementEach: callback(row).
eachCb_skip(delivered, row) == delivered
eachCb(delivered, row) == Append(delivered, RowObject(row))

\* Verbose mode: a method called while sqlite3 is verbose hands the callback
\* that is its last argument an error marked __augmented.
Augmented(code) ==
  CASE code = "SQLITE_RANGE" -> "SQLITE_RANGE __augmented"
    [] code = "SQLITE_MISUSE" -> "SQLITE_MISUSE __augmented"
    [] code = "SQLITE_READONLY" -> "SQLITE_READONLY __augmented"
    [] code = "SQLITE_CONSTRAINT" -> "SQLITE_CONSTRAINT __augmented"
    [] OTHER -> "error __augmented"
IsAugmented(error) == \E code \in {"SQLITE_RANGE", "SQLITE_MISUSE", "SQLITE_READONLY",
                                    "SQLITE_CONSTRAINT", "error"} : error = Augmented(code)

\* The errors the callback of a call may be given for the native error.  The
\* handler of promisifyStatementResult is the last argument of its call; cb
\* of promisifyStatementEach is followed by the completion handler, and
\* whether verbose mode marks the error it is given is left open.
tracedErrors(method, traced, error) ==
  CASE error = "none" \/ ~traced -> {error}
    [] method = "each" -> {error, Augmented(error)}
    [] OTHER -> {Augmented(error)}

\* A call of a method of the statement of query q, made once the instance
\* is ready and its call before has settled, while no construction is under
\* way.
StmtCall(i, q, method, params) ==
  /\ model[i].ready.state = "resolved"
  /\ \A j \in Constructed : Settled(j)
  /\ q \in DOMAIN model[i].stmt
  /\ model[i].call.step \in {"idle", "done"}
  /\ CallsOf(Models) < MaxCalls
  /\ method \in {"reset", "finalize"} => params = <<>>
  /\ model' = [model EXCEPT ![i].call =
       [NoCall EXCEPT !.n = model[i].call.n + 1, !.q = q, !.method = method,
                      !.params = params, !.step = "pending",
                      !.traced = sqlite3.verbose]]
  /\ UNCHANGED <<sqlite3, createDbSql, queries, file>>

\* The native statement runs the call and answers.
StmtCallback(i) ==
  /\ model[i].call.step = "pending"
  /\ LET s == model[i]
         c == s.call
         out == NativeStep(file, s, c.q, c.method, c.params)
     IN /\ \E error \in tracedErrors(c.method, c.traced, out.error) :
             model' = [model EXCEPT ![i] =
               settleCall([s EXCEPT !.bound[c.q] = out.bound,
                                    !.finalized = out.finalized],
                          [out EXCEPT !.error = error])]
        /\ file' = out.file
  /\ UNCHANGED <<sqlite3, createDbSql, queries>>

\* each: the native statement hands the next row to cb.
EachRow(i) ==
  /\ model[i].call.step = "rows"
  /\ model[i].call.sent < Len(model[i].call.rows)
  /\ LET c == model[i].call
     IN model' = [model EXCEPT ![i].call =
          [c EXCEPT !.sent = c.sent + 1,
                    !.delivered = eachCb(c.delivered, c.rows[c.sent + 1])]]
  /\ UNCHANGED <<sqlite3, createDbSql, queries, file>>

\* each: the completion handler, called after the last row: resolve.
EachComplete(i) ==
  /\ model[i].call.step = "rows"
  /\ model[i].call.sent = Len(model[i].call.rows)
  /\ model' = [model EXCEPT ![i].call =
       [model[i].call EXCEPT !.step = "done",
          !.promise = [state |-> "resolved",
                       value |-> [result |-> model[i].call.result]]]]
  /\ UNCHANGED <<sqlite3, createDbSql, queries, file>>

\* A database made by one init unit that creates the table and one that
\* seeds it, and two queries over the table.
InitStmt ==
  /\ createDbSql = <<"sql", "seed">>
  /\ queries \in {<<"insert", "select">>, <<"delete", "select">>}
  /\ file = NoFile
  /\ model = [i \in Models |-> NewModel]
  /\ sqlite3 = NotVerbose

NextStmt ==
  \/ Next
  \/ \E i \in Models, q \in QueryNames, method \in Methods, params \in ParamSets :
       StmtCall(i, q, method, params)
  \/ \E i \in Models : StmtCallback(i)
  \/ \E i \in Models : EachRow(i)
  \/ \E i \in Models : EachComplete(i)

\* Constructions and statement calls.
SpecStmt == InitStmt /\ [][NextStmt]_vars

\* Constructions with and without the verbose option, and statement calls,
\* in one process.
NextVerbose ==
  \/ NextStmt
  \/ \E i \in Models, mode \in Modes : ConstructVerbose(i, mode)

\* The database and the statements of the tests.
InitVerbose ==
  /\ createDbSql = <<"sql", "seed">>
  /\ queries = <<"insert", "select">>
  /\ file = NoFile
  /\ model = [i \in Models |-> NewModel]
  /\ sqlite3 = NotVerbose

SpecVerbose == InitVerbose /\ [][NextVerbose]_vars

(***************************************************************************)
(*                                 Claims                                  *)
(***************************************************************************)

Idle(s) ==
  /\ s.internal = "idle"
  /\ \A k \in Units : s.units[k] = "idle"
InitDone(s) ==
  /\ s.internal = "ok"
  /\ \A k \in Units : s.units[k] = "ok"
NotPreparing(s) == \A q \in QueryNames : s.prep[q] = "idle"

\* C1: the readiness promise of an instance settles once and never changes
\* afterwards, and every caller of isReady() sees that one outcome.
C1_ReadySettlesOnce ==
  [][\A i \in Models :
       /\ model[i].ready.state # "pending" => model'[i].ready = model[i].ready
       /\ \A o \in model'[i].seen : o = model'[i].ready]_vars

C1_Witness ==
  \E i, j \in Models :
    /\ model[i].ready.state = "resolved" /\ model[i].seen = {model[i].ready}
    /\ model[j].ready.state = "rejected" /\ model[j].seen = {model[j].ready}

\* C2: the steps of a construction run in the order open, new-database
\* check, (new only) bookkeeping table then init units, preparation,
\* readiness; a step starts only after the step before it succeeded,
\* readiness resolves only after every query is prepared, and a failed
\* step rejects readiness.
C2_LifecycleOrder ==
  \A i \in Models :
    LET s == model[i]
        stepFailed == \/ "failed" \in {s.open, s.check, s.internal}
                      \/ \E k \in Units : s.units[k] = "failed"
                      \/ \E q \in QueryNames : s.prep[q] = "failed"
    IN /\ s.check # "idle" => s.open = "ok"
       /\ s.internal # "idle" => s.check = "ok" /\ s.isNew = "new"
       /\ \A k \in Units : s.units[k] # "idle" =>
            /\ s.internal = "ok"
            /\ \A j \in Units : j < k => s.units[j] = "ok"
       /\ ~NotPreparing(s) =>
            /\ s.check = "ok"
            /\ IF s.isNew = "new" THEN InitDone(s) ELSE Idle(s)
       /\ s.ready.state = "resolved" =>
            /\ s.check = "ok"
            /\ IF s.isNew = "new" THEN InitDone(s) ELSE Idle(s)
            /\ \A q \in QueryNames : s.prep[q] = "ok" /\ q \in DOMAIN s.stmt
       /\ stepFailed => s.ready.state = "rejected"

C2_Witness ==
  \E i \in Models :
    /\ model[i].ready.state = "resolved"
    /\ model[i].isNew = "new"
    /\ Len(createDbSql) = MaxUnits
    /\ Cardinality(QueryNames) = MaxQueries

Range(seq) == {seq[n] : n \in 1..Len(seq)}

Inserted == {i \in Models : model[i].internal = "ok"}
CreatedBy == {i \in Models : model[i].internal # "idle"}
ExecutedBy(k) == {i \in Models : model[i].units[k] # "idle"}

\* C4: an instance constructed against a file that already holds the
\* bookkeeping table executes neither the bookkeeping creation nor an init
\* unit; over constructions each started after the earlier instances became
\* ready, the bookkeeping creation and every init unit run once in total.
C4_InitOncePerDatabase ==
  /\ \A i \in Models : model[i].born.internal => Idle(model[i])
  /\ ( /\ \A i \in Constructed : model[i].born.inSequence
       /\ \E i \in Constructed : model[i].ready.state = "resolved" )
     => /\ Cardinality(CreatedBy) = 1
        /\ \A k \in Units : Cardinality(ExecutedBy(k)) = 1

C4_Witness ==
  /\ Constructed = Models
  /\ \A i \in Models : model[i].born.inSequence /\ model[i].ready.state = "resolved"
  /\ \E i \in Models : model[i].born.internal /\ model[i].isNew = "existing"
  /\ Len(createDbSql) = MaxUnits

\* C5: when instances are constructed concurrently in the default mode
\* while the file does not exist yet, the version row is inserted at most
\* once and every init unit is executed at most once over all instances,
\* and exactly once when every instance has settled and the units are valid.
Concurrent == {i \in Constructed : model[i].born.missing /\ model[i].dbMode = "RWC"}

C5_ConcurrentInitOnce ==
  Cardinality(Concurrent) >= 2 =>
    /\ Cardinality(Inserted) <= 1
    /\ Len(file.rows) <= 1
    /\ \A k \in Units : Cardinality(ExecutedBy(k)) <= 1
    /\ ( /\ \A i \in Constructed : Settled(i)
         /\ \A k \in Units : createDbSql[k] \in {"sql", "file"} )
       => /\ Cardinality(Inserted) = 1
          /\ file.rows = << <<"version", "1">> >>
          /\ \A k \in Units : Cardinality(ExecutedBy(k)) = 1

C5_Witness ==
  /\ Cardinality(Concurrent) >= 2
  /\ \A i \in Constructed : Settled(i)
  /\ \E i \in Concurrent : model[i].internal = "failed" /\ model[i].isNew = "new"
  /\ \E i \in Concurrent : model[i].ready.state = "resolved"
  /\ Len(createDbSql) = MaxUnits

\* C6: the init units of an instance run in the configured order and never
\* overlap: unit k+1 is started only after the execution of unit k completed.
C6_UnitsSequential ==
  \A i \in Models :
    /\ Cardinality({k \in Units : model[i].units[k] = "running"}) <= 1
    /\ \A k \in Units : k + 1 \in Units /\ model[i].units[k + 1] # "idle"
         => model[i].units[k] \in {"ok", "failed"}

C6_Witness ==
  \E i \in Models :
    /\ Len(createDbSql) >= 2
    /\ model[i].units[1] = "ok"
    /\ model[i].units[2] = "running"

\* C7: when reading or executing init unit k fails, no later unit is
\* executed, no statement is prepared and readiness rejects with the error
\* of that unit.
C7_UnitFailureAborts ==
  \A i \in Models : \A k \in Units :
    model[i].units[k] = "failed" =>
      /\ \A j \in Units : j > k => model[i].units[j] = "idle"
      /\ NotPreparing(model[i])
      /\ DOMAIN model[i].stmt = {}
      /\ model[i].ready.state = "rejected"
      /\ IF createDbSql[k] = "unreadable"
         THEN /\ Head(model[i].ready.value) = <<"text", "Error while reading sql">>
              /\ UnitPath(k) \in Range(model[i].ready.value)
         ELSE /\ Head(model[i].ready.value) = <<"text", "Error while executing sql">>
              /\ UnitSql(k) \in Range(model[i].ready.value)

C7_Witness ==
  \E i \in Models :
    /\ Len(createDbSql) >= 2
    /\ QueryNames # {}
    /\ model[i].units[1] = "failed"
    /\ Settled(i)

\* C8 as stated: when the preparation of a query fails, readiness rejects
\* with a value that starts with 'Error preparing query' and holds the
\* name and the SQL text of a query whose preparation failed.
C8_ErrorNamesQuery ==
  \A i \in Models :
    (\E q \in QueryNames : model[i].prep[q] = "failed") =>
      /\ model[i].ready.state = "rejected"
      /\ Head(model[i].ready.value) = <<"text", "Error preparing query">>
      /\ \E q \in QueryNames :
           /\ model[i].prep[q] = "failed"
           /\ <<"name", q>> \in Range(model[i].ready.value)
           /\ QuerySql(q) \in Range(model[i].ready.value)

\* C8 as amended: when the preparation of a query fails, readiness rejects
\* with a value that starts with 'Error preparing query' and holds the SQL
\* text of a query whose preparation failed and the native error, and no
\* query name.
C8_ErrorHoldsSql ==
  \A i \in Models :
    (\E q \in QueryNames : model[i].prep[q] = "failed") =>
      /\ model[i].ready.state = "rejected"
      /\ Head(model[i].ready.value) = <<"text", "Error preparing query">>
      /\ \E q \in QueryNames :
           /\ model[i].prep[q] = "failed"
           /\ QuerySql(q) \in Range(model[i].ready.value)
      /\ <<"native", "SQLITE_ERROR">> \in Range(model[i].ready.value)
      /\ \A n \in 1..Len(model[i].ready.value) : model[i].ready.value[n][1] # "name"

C8_Witness ==
  \E i \in Models :
    /\ \E q \in QueryNames : model[i].prep[q] = "failed"
    /\ \E q \in QueryNames : model[i].prep[q] = "ok"
    /\ model[i].ready.state = "rejected"

\* C9: whenever readiness has resolved, stmt holds a statement for every
\* configured query name and for no other name, each prepared from the SQL
\* text of its own name.
C9_StmtMatchesQueries ==
  \A i \in Models :
    model[i].ready.state = "resolved" =>
      /\ DOMAIN model[i].stmt = QueryNames
      /\ \A q \in QueryNames : model[i].stmt[q].sql = QuerySql(q)

C9_Witness ==
  \E i \in Models :
    /\ model[i].ready.state = "resolved"
    /\ Cardinality(QueryNames) = MaxQueries
    /\ MaxQueries >= 2
    /\ DOMAIN model[i].stmt = QueryNames

\* C10: when the native open reports an error, readiness rejects with the
\* open error and no later step runs: no new-database check, no bookkeeping
\* or init SQL, no preparation, and stmt stays empty.
C10_OpenErrorStops ==
  \A i \in Models :
    model[i].open = "failed" =>
      /\ model[i].ready.state = "rejected"
      /\ Head(model[i].ready.value) = <<"text", "sqlite: error opening the database">>
      /\ model[i].check = "idle"
      /\ model[i].isNew = "unknown"
      /\ Idle(model[i])
      /\ NotPreparing(model[i])
      /\ DOMAIN model[i].stmt = {}

C10_Witness ==
  \E i \in Models :
    /\ model[i].open = "failed"
    /\ model[i].dbMode = "RO"
    /\ model[i].seen # {}
    /\ QueryNames # {}

\* C11: closeDb() issues the native close only after the finalize of every
\* statement of stmt has succeeded, and resolves only after the native close
\* has completed; when a finalize fails, closeDb() rejects with the native
\* error of a failed finalize and the native close is never issued.
C11_CloseAfterFinalize ==
  \A i \in Models :
    LET c == model[i].close
    IN /\ c.step \in {"finalizing", "closing"} \/ c.native # "idle" =>
            DOMAIN c.fin = DOMAIN model[i].stmt
       /\ c.native # "idle" => \A q \in DOMAIN model[i].stmt : c.fin[q] = "ok"
       /\ c.promise.state = "resolved" => c.native = "done" /\ model[i].closed
       /\ (\E q \in DOMAIN c.fin : c.fin[q] = "failed") =>
            /\ c.native = "idle"
            /\ c.promise.state = "rejected"
            /\ c.promise.value = <<"native", "SQLITE_MISUSE">>

C11_Witness ==
  \E i, j \in Models :
    /\ Cardinality(DOMAIN model[i].stmt) = MaxQueries
    /\ MaxQueries >= 2
    /\ model[i].close.promise.state = "resolved"
    /\ \E q \in DOMAIN model[j].close.fin : model[j].close.fin[q] = "failed"
    /\ \E q \in DOMAIN model[j].close.fin : model[j].close.fin[q] = "ok"

VersionSettles(i) ==
  /\ model[i].version.step = "querying"
  /\ model'[i].version.step = "done"
  /\ model[i].ready.state = "resolved"
  /\ ~model[i].closed

\* C12: on a ready instance getCurrentSchemaVersion() resolves with the
\* numeric value of the 'version' row, and rejects with a value that starts
\* with 'Error while retrieving current schema version' when the bookkeeping
\* table is missing, when the 'version' row is missing and when its value
\* does not parse as a nonzero number.
C12_VersionOrError ==
  [][\A i \in Models : VersionSettles(i) =>
       LET p == model'[i].version.promise
           failed == /\ p.state = "rejected"
                     /\ Head(p.value) = <<"text", "Error while retrieving current schema version">>
       IN /\ file.internal /\ file.rows = << <<"version", "1">> >> =>
               p.state = "resolved" /\ p.value = 1
          /\ file.internal /\ file.rows = << <<"version", "2">> >> =>
               p.state = "resolved" /\ p.value = 2
          /\ ~file.internal => failed
          /\ file.internal /\ file.rows = <<>> => failed
          /\ file.internal /\ file.rows \in {<< <<"version", "0">> >>, << <<"version", "x">> >>}
               => failed]_vars

C12_Witness ==
  \E i, j \in Models :
    /\ model[i].ready.state = "resolved"
    /\ model[i].version.promise.state = "resolved"
    /\ model[i].version.promise.value = 2
    /\ model[j].ready.state = "resolved"
    /\ model[j].version.cause = "value"
    /\ model[j].version.promise.state = "rejected"

\* The instances whose getCurrentSchemaVersion(), called when ready,
\* rejected for one of the three causes.
VersionFailed ==
  {i \in Models : /\ model[i].ready.state = "resolved"
                  /\ model[i].version.step = "done"
                  /\ model[i].version.cause \in {"table", "row", "value"}}

\* C13 as stated: the rejection of getCurrentSchemaVersion() is the same
\* value whether the table is missing, the row is missing or the value does
\* not parse.
C13_UniformRejection ==
  \A i, j \in VersionFailed :
    /\ model[i].version.promise.state = "rejected"
    /\ model[i].version.promise.value = model[j].version.promise.value

\* C13 as amended: every such rejection starts with the same message; the
\* rejections for a missing row and for a value that does not parse are the
\* same value, and the rejection for a missing table holds the native error
\* besides and differs from them.
C13_TableCauseDistinct ==
  \A i, j \in VersionFailed :
    LET vi == model[i].version
        vj == model[j].version
    IN /\ vi.promise.state = "rejected"
       /\ Head(vi.promise.value) = <<"text", "Error while retrieving current schema version">>
       /\ vi.cause # "table" => vi.promise.value = <<Head(vi.promise.value)>>
       /\ vi.cause = "table" =>
            vi.promise.value = <<Head(vi.promise.value), <<"native", "SQLITE_ERROR">>>>
       /\ (vi.cause = "table") = (vj.cause = "table") => vi.promise.value = vj.promise.value
       /\ (vi.cause = "table") # (vj.cause = "table") => vi.promise.value # vj.promise.value

C13_Witness ==
  \E i, j \in VersionFailed :
    /\ model[i].version.cause = "table"
    /\ model[j].version.cause \in {"row", "value"}

\* The step at which a statement call of instance i rejects.
StmtRejects(i) ==
  /\ model[i].call.step = "pending"
  /\ model'[i].call.step = "done"
  /\ model'[i].call.promise.state = "rejected"

\* What a call of method with params on the statement of query q of
\* instance s would give on file f.
LaterResult(f, s, q, method, params) ==
  LET out == NativeStep(f, s, q, method, params)
  IN <<out.error, out.rows, out.r, out.result>>

\* A call that executes the statement with the parameters bound before.
ReusesBinding(method, params) ==
  params = <<>> /\ method \in {"run", "get", "all", "each"}

\* C14 as stated: a statement call that rejects leaves the readiness
\* outcome and the stmt mapping of every instance and the database contents
\* unchanged, and every later call on any statement gives the result it
\* would have given without the rejected call.
C14_RejectionIsLocal ==
  [][\A i \in Models : StmtRejects(i) =>
       /\ file' = file
       /\ \A j \in Models :
            /\ model'[j].ready = model[j].ready
            /\ model'[j].stmt = model[j].stmt
            /\ \A q \in DOMAIN model[j].stmt, method \in Methods, params \in ParamSets :
                 LaterResult(file', model'[j], q, method, params)
                   = LaterResult(file, model[j], q, method, params)]_vars

\* C14 as amended: the same, except for a later call on the same statement
\* that executes it without parameters of its own: it runs with the
\* parameters the rejected call bound.
C14_RejectionKeepsAllButBinding ==
  [][\A i \in Models : StmtRejects(i) =>
       /\ file' = file
       /\ \A j \in Models :
            /\ model'[j].ready = model[j].ready
            /\ model'[j].stmt = model[j].stmt
            /\ \A q \in DOMAIN model[j].stmt, method \in Methods, params \in ParamSets :
                 ~(j = i /\ q = model[i].call.q /\ ReusesBinding(method, params)) =>
                   LaterResult(file', model'[j], q, method, params)
                     = LaterResult(file, model[j], q, method, params)]_vars

C14_Witness ==
  \E i, j \in Models :
    /\ model[i].call.step = "done"
    /\ model[i].call.error = "SQLITE_RANGE"
    /\ model[i].bound[model[i].call.q] = 2
    /\ model[j].call.step = "done"
    /\ model[j].call.error \in {"SQLITE_READONLY", "SQLITE_CONSTRAINT"}

\* C15: the promise of a call of bind, reset, finalize, run, get or all
\* settles once; it rejects exactly when the native callback reports an
\* error, with the native error itself as its value, and resolves otherwise
\* with the native result metadata.
C15_SettlesOnceWithNativeOutcome ==
  [][\A i \in Models :
       LET c == model[i].call
           d == model'[i].call
       IN /\ c.promise.state # "pending" /\ d.n = c.n => d.promise = c.promise
          /\ c.step = "pending" /\ c.method # "each" /\ d.n = c.n /\ d.step # "pending" =>
               LET out == NativeStep(file, model[i], c.q, c.method, c.params)
               IN /\ d.step = "done"
                  /\ d.promise.state # "pending"
                  /\ d.promise.state = "rejected" <=> out.error # "none"
                  /\ d.promise.state = "rejected" =>
                       d.promise.value = <<"native", out.error>>
                  /\ d.promise.state = "resolved" =>
                       d.promise.value.result = out.result]_vars

C15_Witness ==
  \E i, j \in Models :
    /\ model[i].call.method = "bind"
    /\ model[i].call.promise.state = "rejected"
    /\ model[i].call.promise.value = <<"native", "SQLITE_RANGE">>
    /\ model[j].call.method = "run"
    /\ model[j].call.promise.state = "resolved"
    /\ model[j].call.promise.value.result = [changes |-> 1]

\* C16: each hands the rows of the result to its callback once each and
\* in the order of the result, hands over nothing when the result has no
\* row, and its promise resolves only after the last row was handed over.
C16_EachRowsInOrder ==
  \A i \in Models :
    LET c == model[i].call
    IN c.method = "each" =>
         /\ c.sent <= Len(c.rows)
         /\ c.delivered = RowObjects(SubSeq(c.rows, 1, c.sent))
         /\ c.rows = <<>> => c.delivered = <<>>
         /\ c.promise.state = "resolved" =>
              /\ c.sent = Len(c.rows)
              /\ c.delivered = RowObjects(c.rows)

C16_Witness ==
  \E i, j \in Models :
    /\ model[i].call.method = "each"
    /\ model[i].call.promise.state = "resolved"
    /\ model[i].call.delivered = <<[value |-> 2], [value |-> 1]>>
    /\ model[j].call.method = "each"
    /\ model[j].call.promise.state = "resolved"
    /\ model[j].call.rows = <<>>

OnInitialized(s) ==
  s.dbMode = "RO" /\ s.born.internal /\ s.born.inSequence

\* Such an instance ran no bookkeeping or init SQL, and is ready once its
\* readiness has settled.
ReadsOnly(s) ==
  OnInitialized(s) =>
    /\ Idle(s)
    /\ s.ready.state # "rejected"

\* C18: an instance opened with OPEN_READONLY on a database the wrapper
\* initialized before attempts no write while it is constructed and becomes
\* ready, and every run of an INSERT or DELETE statement on it rejects and
\* leaves the file unchanged.
C18_ReadOnlyRejectsWrites ==
  [][\A i \in Models :
       /\ ReadsOnly(model[i])
       /\ ReadsOnly(model'[i])
       /\ ( /\ OnInitialized(model[i])
            /\ model[i].call.step = "pending"
            /\ model'[i].call.step = "done"
            /\ model[i].call.method = "run"
            /\ queries[model[i].call.q] \in {"insert", "delete"} )
          => /\ model'[i].call.promise.state = "rejected"
             /\ file' = file]_vars

C18_Witness ==
  \E i \in Models :
    /\ OnInitialized(model[i])
    /\ model[i].ready.state = "resolved"
    /\ model[i].call.step = "done"
    /\ model[i].call.method = "run"
    /\ model[i].call.params = <<1>>
    /\ queries[model[i].call.q] \in {"insert", "delete"}
    /\ model[i].call.error = "SQLITE_READONLY"

\* C19 as stated: once the readiness of an instance has settled, resolved
\* or rejected, its stmt mapping never changes.
C19_StmtFrozenOnceSettled ==
  [][\A i \in Models :
       model[i].ready.state # "pending" => model'[i].stmt = model[i].stmt]_vars

\* C19 as amended: once readiness has resolved the stmt mapping never
\* changes; once it has rejected, the only change is that a preparation
\* still pending adds the statement of its query when it succeeds.
C19_StmtFrozenOnceReady ==
  [][\A i \in Models :
       LET s == model[i]
           t == model'[i]
       IN /\ s.ready.state = "resolved" => t.stmt = s.stmt
          /\ s.ready.state = "rejected" =>
               \/ t.stmt = s.stmt
               \/ \E q \in QueryNames :
                    /\ s.prep[q] = "pending"
                    /\ t.prep[q] = "ok"
                    /\ q \notin DOMAIN s.stmt
                    /\ DOMAIN t.stmt = DOMAIN s.stmt \cup {q}
                    /\ t.stmt[q].sql = QuerySql(q)
                    /\ \A x \in DOMAIN s.stmt : t.stmt[x] = s.stmt[x]]_vars

C19_Witness ==
  \E i \in Models :
    /\ model[i].ready.state = "rejected"
    /\ \E q \in QueryNames : model[i].prep[q] = "failed"
    /\ DOMAIN model[i].stmt # {}
    /\ model[i].close.step = "done"
    /\ model[i].version.step = "done"

\* C20: getCurrentSchemaVersion() and closeDb() issue no native get,
\* finalize or close while readiness is pending; when readiness rejects
\* both reject with the readiness error and issue no native call at all.
C20_OperationsWaitForReady ==
  \A i \in Models :
    LET s == model[i]
        v == s.version
        c == s.close
        closeNatives == c.native # "idle" \/ DOMAIN c.fin # {}
    IN /\ s.ready.state = "pending" =>
            /\ v.step \in {"idle", "waiting"}
            /\ c.step \in {"idle", "waiting"}
       /\ v.native \/ closeNatives => s.ready.state = "resolved"
       /\ s.ready.state = "rejected" /\ v.step = "done" =>
            /\ v.promise.state = "rejected"
            /\ v.promise.value = s.ready.value
       /\ s.ready.state = "rejected" /\ c.step = "done" =>
            /\ c.promise.state = "rejected"
            /\ c.promise.value = s.ready.value

C20_Witness ==
  \E i, j \in Models :
    /\ model[i].ready.state = "rejected"
    /\ model[i].version.step = "done"
    /\ model[i].close.step = "done"
    /\ model[j].ready.state = "resolved"
    /\ model[j].version.native
    /\ model[j].close.native = "done"

\* Initialization completed against the file: the bookkeeping table holds
\* the version row and the table of every configured init unit exists.
Initialized(f) ==
  /\ f.internal
  /\ f.rows # <<>>
  /\ \A k \in Units : k \in f.tables

\* C21: over constructions with one configuration against one file, also
\* after a construction whose initialization failed part-way, an instance
\* whose readiness resolved finds every init unit completed against the
\* file; and once every construction has settled, the bookkeeping table is
\* present only if initialization completed.
C21_ReadyImpliesInitialized ==
  /\ \A i \in Models : model[i].ready.state = "resolved" => Initialized(file)
  /\ (\A i \in Constructed : Settled(i)) /\ file.internal => Initialized(file)

\* C22: when every native call invokes its callback in the end, the
\* readiness promise of every constructed instance settles in the end, for
\* every configuration, open mode and outcome of the native calls.
C22_ReadyEventuallySettles ==
  \A i \in Models : (i \in Constructed) ~> Settled(i)

C22_Witness ==
  /\ Constructed = Models
  /\ \A i \in Models : Settled(i)
  /\ \E i \in Models : model[i].ready.state = "rejected" /\ model[i].open = "failed"
  /\ \E i \in Models :
       /\ model[i].ready.state = "resolved"
       /\ InitDone(model[i])
       /\ DOMAIN model[i].stmt = QueryNames
  /\ Len(createDbSql) = MaxUnits
  /\ Len(queries) = MaxQueries

\* The error a rejected statement call was rejected with.
ErrorOf(c) == c.promise.value[2]
CallRejected(c) == c.step = "done" /\ c.promise.state = "rejected"
VerboseModels == {j \in Constructed : model[j].verbose}

\* C23: in one process, whatever the constructions before, a statement
\* error raised through an instance constructed with verbose = false is the
\* plain native error, and one raised through an instance constructed with
\* verbose = true (by a method whose callback is the handler of
\* promisifyStatementResult) is augmented.
C23_VerboseIsPerModel ==
  \A i \in Models :
    LET c == model[i].call
    IN CallRejected(c) =>
         /\ ~model[i].verbose => ~IsAugmented(ErrorOf(c))
         /\ model[i].verbose /\ c.method # "each" => IsAugmented(ErrorOf(c))

\* C23 as the code has it: verbose mode belongs to the process.  sqlite3 is
\* verbose exactly when some instance has been constructed with verbose =
\* true; a call is traced exactly when it is made after such a
\* construction, through whichever instance; the error of a call that was
\* not traced is plain, and the error of a traced call (by a method whose
\* callback is the handler of promisifyStatementResult) is augmented.
C23_VerboseIsPerProcess ==
  [][ /\ sqlite3.verbose <=> VerboseModels # {}
      /\ \A i \in Models :
           LET c == model[i].call
               d == model'[i].call
           IN /\ d.n = c.n + 1 => (d.traced <=> VerboseModels # {})
              /\ c.step = "pending" /\ CallRejected(d) =>
                   /\ IsAugmented(ErrorOf(d)) => c.traced
                   /\ c.traced /\ c.method # "each" => IsAugmented(ErrorOf(d))
              /\ model[i].verbose /\ c.step = "pending" => c.traced ]_vars

C23_Witness ==
  \E i, j \in Models :
    /\ ~model[i].verbose
    /\ model[j].verbose
    /\ i < j
    /\ CallRejected(model[i].call)
    /\ model[i].call.method = "run"
    /\ model[i].call.params = <<2, 1>>
    /\ ErrorOf(model[i].call) = Augmented("SQLITE_RANGE")

====
